---- MODULE Spec2Model ----
(***************************************************************************)
(* Validator exit explorer: CSV ingestion, status synchronisation against  *)
(* the beacon API (server/routes.js, server/beaconApi.js) and the          *)
(* statistics roll-ups, as a state machine over the three SQLite tables.   *)
(*                                                                         *)
(* Strings that the code inspects character by character (public keys) are *)
(* sequences of one-character strings.  CURRENT_TIMESTAMP is a logical     *)
(* stamp naming the statement batch that wrote the row.  Every `await` of  *)
(* a handler is a point where other handlers may run, so a handler is one  *)
(* action per stretch of code between two awaits.  A statement error that  *)
(* the code gives no callback for is ignored.                              *)
(***************************************************************************)
EXTENDS Integers, Sequences, FiniteSets, TLC

(* ------------------------------ bounds --------------------------------- *)
\* sync runs started in one behaviour
MaxRuns == 1
\* sync runs started in one behaviour of the specification of overlapping runs
MaxOverlap == 2
\* rows of one uploaded CSV file
MaxCsvRows == 3
\* rows of the validator CSV loaded beside the exit tracking
MaxJoinRows == 1
\* rows of the CSV file uploaded beside two sync runs under storage faults
MaxTxRows == 2
\* rows of one uploaded exit CSV file
MaxExitRows == 2
\* CSV ingestions (uploads, loader runs) in one behaviour
MaxUploads == 1
\* DELETE requests in one behaviour
MaxDeletes == 1
\* rejected ingestion requests of one route in one behaviour
MaxRejects == 1
\* keys passed to one call of getValidatorStatusesBatch on its own
MaxCallKeys == 2
\* exit batches created in one behaviour
MaxBatches == 2
\* characters of a key string handed to normalizePubkey on its own
MaxKeyLen == 3
\* successive applications of normalizePubkey to one key string
MaxApplications == 2
\* keys per sync chunk (500 in the code, routes.js BATCH_SIZE)
BATCH_SIZE == 2
\* keys per fallback chunk (50 in the code, beaconApi.js CHUNK_SIZE)
CHUNK_SIZE == 1

\* SQL NULL / JS null in a scalar position, and JS null where an object is expected
NULL == "NULL"
Null == [null |-> TRUE]

(* ------------------------- server/utils.js ----------------------------- *)
Whitespace == {" "}

toLowerCase(c) ==
  CASE c = "A" -> "a"
    [] c = "B" -> "b"
    [] c = "X" -> "x"
    [] OTHER -> c

RECURSIVE trimStart(_)
trimStart(s) ==
  IF s # <<>> /\ Head(s) \in Whitespace THEN trimStart(Tail(s)) ELSE s

RECURSIVE trimEnd(_)
trimEnd(s) ==
  IF s # <<>> /\ s[Len(s)] \in Whitespace
  THEN trimEnd(SubSeq(s, 1, Len(s) - 1))
  ELSE s

trim(s) == trimEnd(trimStart(s))

\* a normalizePubkey that prefixes whatever it is given
startsWithNothing(s) == FALSE

startsWith0x(s) == Len(s) >= 2 /\ s[1] = "0" /\ s[2] = "x"

normalizePubkey(pubkey) ==
  IF pubkey = <<>> THEN pubkey
  ELSE LET t == trim(pubkey)
           n == IF startsWith0x(t) THEN t ELSE <<"0", "x">> \o t
       IN  [i \in 1..Len(n) |-> toLowerCase(n[i])]

\* key strings as they arrive in CSV files
RawKeys == { <<"0", "x", "a">>, <<" ", "B">>, <<"c">> }

(* ------------------------ server/beaconApi.js -------------------------- *)
\* labels the oracle answers with during a sync
SyncLabels == {"active_ongoing", "exited_unslashed"}

NotFound == "not_found"

\* a mapper without the final return: a label outside the two lists is
\* handed back as it came
mapBeaconStatusPartial(beaconStatus) ==
  IF beaconStatus \in {"active_ongoing", "active_exiting", "active_slashed"}
  THEN "active"
  ELSE IF beaconStatus \in {"pending_queued", "exited_unslashed", "exited_slashed"}
  THEN "exit_queue"
  ELSE beaconStatus

mapBeaconStatus(beaconStatus) ==
  IF beaconStatus \in {"active_ongoing", "active_exiting", "active_slashed"}
  THEN "active"
  ELSE IF beaconStatus \in {"pending_queued", "exited_unslashed", "exited_slashed"}
  THEN "exit_queue"
  ELSE "inactive"

\* how one HTTP request to the oracle ends
BulkOutcomes == {"ok", "nodata", "timeout", "rejected", "malformed"}
PerKeyOutcomes == {"ok", "nodata", "error"}

THROWN == [thrown |-> TRUE]

\* getValidatorStatus: view is what the oracle knows about the key, outcome
\* how the GET ends; a 404 and a body without data give null, any other
\* failure is rethrown.
getValidatorStatus(pubkey, outcome, view) ==
  LET formattedPubkey == normalizePubkey(pubkey)
  IN  IF outcome = "error" THEN THROWN
      ELSE IF outcome = "nodata" THEN Null
      ELSE IF view[formattedPubkey] = NotFound THEN Null
      ELSE [status |-> view[formattedPubkey], pubkey |-> formattedPubkey]

\* chunkPromises without its try/catch: a per-key error rejects the promise
FallbackOneRethrow(pubkey, outcome, view) ==
  getValidatorStatus(pubkey, outcome, view)

\* the body of chunkPromises: a thrown per-key error becomes null
FallbackOne(pubkey, outcome, view) ==
  LET r == getValidatorStatus(pubkey, outcome, view)
  IN  IF r = THROWN THEN Null ELSE r

\* the fallback loop: CHUNK_SIZE keys at a time, nulls filtered out;
\* perKey[j] is the outcome of the request for pubkeys[j]
RECURSIVE Fallback(_, _, _, _)
Fallback(pubkeys, perKey, view, i) ==
  IF i > Len(pubkeys) THEN <<>>
  ELSE LET hi == IF i + CHUNK_SIZE - 1 < Len(pubkeys)
                 THEN i + CHUNK_SIZE - 1 ELSE Len(pubkeys)
           chunkResults == [j \in 1..(hi - i + 1) |->
                              FallbackOne(pubkeys[i + j - 1], perKey[i + j - 1], view)]
       IN  SelectSeq(chunkResults, LAMBDA r : r # Null)
             \o Fallback(pubkeys, perKey, view, i + CHUNK_SIZE)

\* the bulk POST answers with one entry per id the oracle knows
BulkData(pubkeys, view) ==
  LET all == [j \in 1..Len(pubkeys) |->
                IF view[normalizePubkey(pubkeys[j])] = NotFound THEN Null
                ELSE [status |-> view[normalizePubkey(pubkeys[j])],
                      pubkey |-> normalizePubkey(pubkeys[j])]]
  IN  SelectSeq(all, LAMBDA r : r # Null)

\* getValidatorStatusesBatch: result is the returned list, fellBack tells
\* whether the catch branch (per-key requests) ran, thrown whether an
\* exception left the function: Promise.all rejects when a promise of
\* chunkPromises rejects, and nothing around it catches
getValidatorStatusesBatch(pubkeys, bulk, perKey, view) ==
  IF bulk = "ok"
  THEN [result |-> BulkData(pubkeys, view), fellBack |-> FALSE, thrown |-> FALSE]
  ELSE IF bulk = "nodata"
  THEN [result |-> <<>>, fellBack |-> FALSE, thrown |-> FALSE]
  ELSE LET results == Fallback(pubkeys, perKey, view, 1)
           rejected == \E n \in 1..Len(results) : results[n] = THROWN
       IN  [result |-> IF rejected THEN <<>> ELSE results, fellBack |-> TRUE,
            thrown |-> rejected]

(* ------------------------------ state ---------------------------------- *)
VARIABLES
  validators,       \* table validators, rows in rowid order
  exit_batches,     \* table exit_batches
  exit_validators,  \* table exit_validators
  nextBatchId,      \* AUTOINCREMENT counter of exit_batches
  txOpen,           \* the connection is inside a transaction
  txBase,           \* the tables as they were when that transaction began
  runs,             \* the sync runs started so far (handler invocations)
  upload,           \* the validator CSV ingestion in progress, or Null
  exitUpload,       \* the exit CSV ingestion in progress, or Null
  deleting,         \* the DELETE request in progress, or Null
  nUploads,         \* validator CSV ingestions started so far
  call,             \* a call of getValidatorStatusesBatch on its own, or Null
  nDeletes,         \* DELETE requests received so far
  rejects,          \* per ingestion route, the requests answered with an error
                    \* on the validation of their file
  applied,          \* a function of utils.js or beaconApi.js applied on its own:
                    \* its argument and the values returned so far, or Null
  answers           \* the responses sent so far to the POST /api/upload-csv
                    \* requests that passed the validation of their file

vars == <<validators, exit_batches, exit_validators, nextBatchId, txOpen, txBase,
          runs, upload, exitUpload, deleting, nUploads, call, nDeletes, rejects,
                 applied, answers>>

tables == <<validators, exit_batches, exit_validators>>

KnownProviders == {"Lido", "Etherfi", "Mantle"}

Range(s) == { s[i] : i \in 1..Len(s) }
Min(a, b) == IF a < b THEN a ELSE b

\* CURRENT_TIMESTAMP of an ingestion statement and of the statements of
\* chunk c of run r
IngestStamp == <<"ingest">>
SyncStamp(r, c) == <<"sync", r, c>>

\* the routes that take a CSV file
IngestRoutes == {"upload-csv", "upload-exit-csv"}

\* the state after initDatabase, but for the function applied on its own
InitDatabase ==
  /\ validators = <<>>
  /\ exit_batches = <<>>
  /\ exit_validators = <<>>
  /\ nextBatchId = 1
  /\ txOpen = FALSE
  /\ txBase = <<>>
  /\ runs = <<>>
  /\ upload = Null
  /\ exitUpload = Null
  /\ deleting = Null
  /\ nUploads = 0
  /\ call = Null
  /\ nDeletes = 0
  /\ rejects = [route \in IngestRoutes |-> 0]
  /\ answers = <<>>

Init ==
  /\ InitDatabase
  /\ applied = Null

(* --------------------- ingestion of validator CSVs --------------------- *)
\* provider.toLowerCase().includes(word), for the provider cells of the model
\* ("", "LIDO", "etherfi", "Kiln", "Unknown")
ProviderIncludes(provider, word) ==
  \/ provider = "LIDO" /\ word = "lido"
  \/ provider = "etherfi" /\ word = "etherfi"

\* parseCSV's provider: a known name inside the cell, else the cell, else
\* the default derived from the file name
normalizedProvider(provider, defaultProvider) ==
  IF ProviderIncludes(provider, "lido") THEN "Lido"
  ELSE IF ProviderIncludes(provider, "etherfi") THEN "Etherfi"
  ELSE IF ProviderIncludes(provider, "mantle") THEN "Mantle"
  ELSE IF provider # "" THEN provider
  ELSE defaultProvider

\* one record as parseCSV pushes it (server/csvParser.js); an empty cell of
\* json_filename or bucket_no is null
parseRow(rawPubkey, provider, defaultProvider, jsonFilename, bucketNo) ==
  [pubkey |-> normalizePubkey(trim(rawPubkey)),
   provider |-> normalizedProvider(provider, defaultProvider),
   json_filename |-> IF jsonFilename = "" THEN NULL ELSE jsonFilename,
   bucket_no |-> IF bucketNo = "" THEN NULL ELSE bucketNo]

\* INSERT OR REPLACE INTO validators: the row with the same pubkey is
\* deleted and the new row gets a fresh rowid
InsertOrReplaceValidator(rows, row) ==
  SelectSeq(rows, LAMBDA v : v.pubkey # row.pubkey) \o <<row>>

\* the row written by POST /api/upload-csv (no bucket_no column is given)
UploadedRow(validator) ==
  [pubkey |-> normalizePubkey(validator.pubkey), provider |-> validator.provider,
   status |-> "pending", json_filename |-> validator.json_filename,
   bucket_no |-> NULL, updated_at |-> IngestStamp]

\* the row written by scripts/loadCSV.js and scripts/loadAllCSV.js
LoadedRow(validator) ==
  [pubkey |-> validator.pubkey, provider |-> validator.provider,
   status |-> "pending", json_filename |-> validator.json_filename,
   bucket_no |-> validator.bucket_no, updated_at |-> IngestStamp]

\* POST /api/upload-csv without a file, with a file parseCSV fails on, or
\* with a file of no valid record: the handler answers 400 or 500 ahead of
\* its first statement
UploadCsvReject ==
  /\ upload = Null
  /\ rejects["upload-csv"] < MaxRejects
  /\ rejects' = [rejects EXCEPT !["upload-csv"] = @ + 1]
  /\ UNCHANGED <<validators, exit_batches, exit_validators, nextBatchId, txOpen,
                 txBase, runs, upload, exitUpload, deleting, nUploads, call, nDeletes,
                 applied, answers>>

\* the request arrives (kind "http") or the loader starts (kind "script")
\* and the file is parsed: n valid records, at least one, at most maxRows;
\* upload.last is the record of the file that was upserted last, upload.file
\* the records upserted so far, upload.raws their pubkey cells
UploadCsvStart(kinds, maxRows) ==
  /\ upload = Null
  /\ nUploads < MaxUploads
  /\ \E n \in 1..maxRows, kind \in kinds :
       /\ upload' = [kind |-> kind, total |-> n, remaining |-> n, last |-> Null,
                     file |-> <<>>, raws |-> <<>>]
       /\ nUploads' = nUploads + 1
  /\ UNCHANGED <<validators, exit_batches, exit_validators, nextBatchId, txOpen,
                 txBase, runs, exitUpload, deleting, call, nDeletes, rejects,
                 applied, answers>>

\* the next record of the file is upserted
UploadCsvStep(raws, providers, buckets) ==
  /\ upload # Null
  /\ upload.remaining > 0
  /\ \E raw \in raws, p \in providers, b \in buckets :
       LET validator == parseRow(raw, p, "Lido", "", b)
           row == IF upload.kind = "http" THEN UploadedRow(validator)
                  ELSE LoadedRow(validator)
       IN  /\ validators' = InsertOrReplaceValidator(validators, row)
           /\ upload' = [upload EXCEPT !.remaining = @ - 1, !.last = validator,
                                       !.file = Append(@, validator),
                                       !.raws = Append(@, raw)]
  /\ UNCHANGED <<exit_batches, exit_validators, nextBatchId, txOpen, txBase, runs,
                 exitUpload, deleting, nUploads, call, nDeletes, rejects,
                 applied, answers>>

\* What a request gets back once the loop is over.  The response object
\* names the undeclared variable `updated`: a ReferenceError takes control
\* to the catch block before res.json is called, and there the unlinkSync of
\* the file, removed already, throws in turn.  The handler's promise rejects:
\* Express answers 500 where it handles rejected handlers, nothing where it
\* does not.
UploadCsvAnswers == {"error", "none"}

\* the loop is over and the handler ends; the loader script answers nobody
UploadCsvEnd ==
  /\ upload # Null
  /\ upload.remaining = 0
  /\ upload' = Null
  /\ IF upload.kind = "http"
     THEN \E answer \in UploadCsvAnswers :
            answers' = IF answer = "none" THEN answers ELSE Append(answers, answer)
     ELSE answers' = answers
  /\ UNCHANGED <<validators, exit_batches, exit_validators, nextBatchId, txOpen,
                 txBase, runs, exitUpload, deleting, nUploads, call, nDeletes, rejects,
                 applied>>

(* ------------------------ ingestion of exit CSVs ----------------------- *)
\* INSERT OR REPLACE INTO exit_validators under UNIQUE(batch_id, pubkey)
InsertOrReplaceExit(rows, row) ==
  SelectSeq(rows, LAMBDA e : ~(e.batch_id = row.batch_id /\ e.pubkey = row.pubkey))
    \o <<row>>

ExitRow(batchId, pubkey) ==
  [batch_id |-> batchId, pubkey |-> normalizePubkey(pubkey), status |-> "pending",
   updated_at |-> IngestStamp]

\* a handler that creates the exit_batches row ahead of the validation
UploadExitCsvRejectLate ==
  /\ exitUpload = Null
  /\ rejects["upload-exit-csv"] < MaxRejects
  /\ rejects' = [rejects EXCEPT !["upload-exit-csv"] = @ + 1]
  /\ exit_batches' =
       Append(exit_batches, [id |-> nextBatchId, total_validators |-> 0])
  /\ nextBatchId' = nextBatchId + 1
  /\ UNCHANGED <<validators, exit_validators, txOpen, txBase, runs, upload,
                 exitUpload, deleting, nUploads, call, nDeletes,
                 applied, answers>>

\* POST /api/upload-exit-csv without a file, with a file parseCSV fails on,
\* or with a file of no valid record: the handler answers 400 or 500 ahead
\* of its first statement
UploadExitCsvReject ==
  /\ exitUpload = Null
  /\ rejects["upload-exit-csv"] < MaxRejects
  /\ rejects' = [rejects EXCEPT !["upload-exit-csv"] = @ + 1]
  /\ UNCHANGED <<validators, exit_batches, exit_validators, nextBatchId, txOpen,
                 txBase, runs, upload, exitUpload, deleting, nUploads, call, nDeletes,
                 applied, answers>>

\* the file is parsed (n valid records, at least one, at most maxRows) and
\* the exit_batches row is created
UploadExitCsvStart(maxRows) ==
  /\ exitUpload = Null
  /\ nextBatchId <= MaxBatches
  /\ \E n \in 1..maxRows :
       /\ exit_batches' =
            Append(exit_batches, [id |-> nextBatchId, total_validators |-> n])
       /\ nextBatchId' = nextBatchId + 1
       /\ exitUpload' = [batchId |-> nextBatchId, total |-> n, remaining |-> n]
  /\ UNCHANGED <<validators, exit_validators, txOpen, txBase, runs, upload, deleting,
                 nUploads, call, nDeletes, rejects,
                 applied, answers>>

\* the next record of the file is inserted for the batch
UploadExitCsvStep(raws) ==
  /\ exitUpload # Null
  /\ exitUpload.remaining > 0
  /\ \E raw \in raws :
       LET validator == parseRow(raw, "", "Lido", "", "")
       IN  exit_validators' =
             InsertOrReplaceExit(exit_validators,
                                 ExitRow(exitUpload.batchId, validator.pubkey))
  /\ exitUpload' = [exitUpload EXCEPT !.remaining = @ - 1]
  /\ UNCHANGED <<validators, exit_batches, nextBatchId, txOpen, txBase, runs, upload,
                 deleting, nUploads, call, nDeletes, rejects,
                 applied, answers>>

UploadExitCsvEnd ==
  /\ exitUpload # Null
  /\ exitUpload.remaining = 0
  /\ exitUpload' = Null
  /\ UNCHANGED <<validators, exit_batches, exit_validators, nextBatchId, txOpen,
                 txBase, runs, upload, deleting, nUploads, call, nDeletes, rejects,
                 applied, answers>>

(* ---------------------- DELETE /api/exit-batch/:id --------------------- *)
\* first statement: the children
DeleteExitValidators ==
  /\ deleting = Null
  /\ nDeletes < MaxDeletes
  /\ nDeletes' = nDeletes + 1
  /\ \E batchId \in 1..MaxBatches :
       /\ batchId < nextBatchId
       /\ exit_validators' =
            SelectSeq(exit_validators, LAMBDA e : e.batch_id # batchId)
       /\ deleting' = [batchId |-> batchId]
  /\ UNCHANGED <<validators, exit_batches, nextBatchId, txOpen, txBase, runs, upload,
                 exitUpload, nUploads, call, rejects,
                 applied, answers>>

\* second statement: the batch; it may fail, and the handler answers 500
DeleteExitBatch ==
  /\ deleting # Null
  /\ \E err \in BOOLEAN :
       exit_batches' = IF err THEN exit_batches
                       ELSE SelectSeq(exit_batches, LAMBDA b : b.id # deleting.batchId)
  /\ deleting' = Null
  /\ UNCHANGED <<validators, exit_validators, nextBatchId, txOpen, txBase, runs,
                 upload, exitUpload, nUploads, call, nDeletes, rejects,
                 applied, answers>>

(* ---------- POST /api/sync-statuses, POST /api/sync-exit-statuses ------ *)
\* A run is one invocation of a sync handler:
\*   target     the table it works on
\*   snapshot   the pubkeys enumerated at its start
\*   total      the total of its acknowledgment
\*   i          index in snapshot of the first key of the current chunk
\*   pc         "fetching": the oracle request of the chunk is in flight,
\*              "fetched": the statuses are in hand, the transaction is next,
\*              "delay": in the pacing delay after the chunk, "done"
\*   attempted  the chunk numbers whose processing was begun, in order
\*   fetch      the oracle client's answer for the current chunk: whether it
\*              fell back to per-key requests, which of those failed, and
\*              the list it returned
\*   last       what became of the last chunk handled
\*   order      what the handler did, in program order, in the stretch that
\*              starts the run: the SELECT's result, the response, and the
\*              oracle request of the first chunk
\*   known      history of the enumeration: the records the SELECT went over
\*              (pubkey for validators, batch and pubkey for exit_validators)

\* the SELECT at the start of each handler
Enumerate(target) ==
  IF target = "validators"
  THEN [k \in 1..Len(validators) |-> validators[k].pubkey]
  ELSE [k \in 1..Len(exit_validators) |-> exit_validators[k].pubkey]

ChunkNo(i) == ((i - 1) \div BATCH_SIZE) + 1
NumChunks(run) == (Len(run.snapshot) + BATCH_SIZE - 1) \div BATCH_SIZE

\* validators.slice(i, i + BATCH_SIZE), normalized
ChunkKeys(run) ==
  LET batch == SubSeq(run.snapshot, run.i,
                      Min(run.i + BATCH_SIZE - 1, Len(run.snapshot)))
  IN  [j \in 1..Len(batch) |-> normalizePubkey(batch[j])]

\* the records the SELECT of a handler goes over
EnumeratedRecords(target) ==
  IF target = "validators"
  THEN { validators[k].pubkey : k \in 1..Len(validators) }
  ELSE { <<exit_validators[k].batch_id, exit_validators[k].pubkey>> :
           k \in 1..Len(exit_validators) }

\* a handler that answers only after it has issued the first request
StartOrderLate(snapshot) ==
  IF Len(snapshot) = 0 THEN <<"select", "response">>
  ELSE <<"select", "oracle_request", "response">>

\* the first stretch of a handler: an empty set is answered with return
\* res.json(...), any other with res.json(...) followed by the loop
StartOrder(snapshot) ==
  IF Len(snapshot) = 0 THEN <<"select", "response">>
  ELSE <<"select", "response", "oracle_request">>

\* a loop that issues the oracle requests of all chunks before it awaits one
FirstAttemptAll(snapshot) ==
  [n \in 1..((Len(snapshot) + BATCH_SIZE - 1) \div BATCH_SIZE) |-> n]

\* the chunks whose oracle request is issued when the loop is entered: the
\* first iteration awaits the request of the first chunk
FirstAttempt(snapshot) == IF Len(snapshot) = 0 THEN <<>> ELSE <<1>>

\* the request arrives, the keys are enumerated, the acknowledgment is sent
\* and the first chunk's oracle request is issued; nothing in the handler
\* looks for a run in progress
StartSync(target, maxRuns) ==
  /\ Len(runs) < maxRuns
  /\ LET snapshot == Enumerate(target)
     IN  runs' = Append(runs,
           [target |-> target, snapshot |-> snapshot, total |-> Len(snapshot),
            i |-> 1,
            pc |-> IF Len(snapshot) = 0 THEN "done" ELSE "fetching",
            attempted |-> FirstAttempt(snapshot),
            fetch |-> Null, last |-> Null,
            order |-> StartOrder(snapshot), known |-> EnumeratedRecords(target)])
  /\ UNCHANGED <<validators, exit_batches, exit_validators, nextBatchId, txOpen,
                 txBase, upload, exitUpload, deleting, nUploads, call, nDeletes, rejects,
                 applied, answers>>

\* the positions whose per-key request fails with something else than a 404
PerKeyErrors(perKey) == { j \in DOMAIN perKey : perKey[j] = "error" }

\* getValidatorStatusesBatch returns to the handler
FetchReturn(r, bulks) ==
  /\ runs[r].pc = "fetching"
  /\ LET pubkeys == ChunkKeys(runs[r])
     IN  \E bulk \in bulks,
            view \in [Range(pubkeys) -> SyncLabels \cup {NotFound}],
            perKey \in [1..Len(pubkeys) -> PerKeyOutcomes] :
           /\ bulk \in {"ok", "nodata"} => \A j \in 1..Len(pubkeys) : perKey[j] = "ok"
           /\ LET ret == getValidatorStatusesBatch(pubkeys, bulk, perKey, view)
              IN  /\ ~ret.thrown
                  /\ runs' = [runs EXCEPT ![r].pc = "fetched",
                                          ![r].fetch =
                                            [fellBack |-> ret.fellBack,
                                             errors |-> IF ret.fellBack
                                                        THEN PerKeyErrors(perKey) ELSE {},
                                             statuses |-> ret.result]]
  /\ UNCHANGED <<validators, exit_batches, exit_validators, nextBatchId, txOpen,
                 txBase, upload, exitUpload, deleting, nUploads, call, nDeletes, rejects,
                 applied, answers>>

\* statusMap[normalizePubkey(status.pubkey)] = mapBeaconStatus(status.status)
StatusMapKeys(statuses) == { normalizePubkey(statuses[n].pubkey) : n \in 1..Len(statuses) }

StatusMapGet(statuses, pubkey) ==
  LET hits == { n \in 1..Len(statuses) : normalizePubkey(statuses[n].pubkey) = pubkey }
      n == CHOOSE m \in hits : \A o \in hits : o <= m
  IN  mapBeaconStatus(statuses[n].status)

\* a handler pair that writes unknown for both tables
MissingStatusUnknown(target) == "unknown"

\* the status written for a key the map does not hold
MissingStatus(target) == IF target = "validators" THEN "inactive" ELSE "unknown"

\* statusMap[pubkey] || fallback
StatusFor(target, statuses, pubkey) ==
  IF pubkey \in StatusMapKeys(statuses)
  THEN StatusMapGet(statuses, pubkey)
  ELSE MissingStatus(target)

\* the UPDATE statements of one chunk; failed holds the positions whose
\* stmt.run reports an error: the error is logged or ignored, the other
\* statements run
UpdateRows(rows, target, pubkeys, statuses, failed, stamp) ==
  LET updated == { pubkeys[j] : j \in (1..Len(pubkeys)) \ failed }
  IN  [k \in 1..Len(rows) |->
         IF rows[k].pubkey \in updated
         THEN [rows[k] EXCEPT !.status = StatusFor(target, statuses, rows[k].pubkey),
                              !.updated_at = stamp]
         ELSE rows[k]]

CommitOutcomes == {"ok", "fail_open", "fail_rollback"}

\* what the chunk's transaction comes to: finalize fails and ROLLBACK is
\* run, or COMMIT is run and succeeds or fails
TxOutcome(finalizeErr, commit) ==
  IF finalizeErr THEN "rolled_back"
  ELSE IF commit = "ok" THEN "committed"
  ELSE "commit_failed"

\* a loop whose catch block is outside the for statement: a failed chunk
\* ends the run
AfterChunkAbort(run, outcome) ==
  IF outcome = "committed" /\ run.i + BATCH_SIZE <= Len(run.snapshot)
  THEN [run EXCEPT !.pc = "delay"]
  ELSE [run EXCEPT !.pc = "done", !.i = @ + BATCH_SIZE]

\* the loop position after a chunk: the delay is inside the try block, the
\* catch block falls through to the next iteration
AfterChunk(run, outcome) ==
  IF outcome = "committed" /\ run.i + BATCH_SIZE <= Len(run.snapshot)
  THEN [run EXCEPT !.pc = "delay"]
  ELSE IF run.i + BATCH_SIZE <= Len(run.snapshot)
  THEN [run EXCEPT !.pc = "fetching", !.i = @ + BATCH_SIZE,
                   !.attempted = Append(@, ChunkNo(run.i + BATCH_SIZE))]
  ELSE [run EXCEPT !.pc = "done", !.i = @ + BATCH_SIZE]

\* the chunk's transaction.  faulty: storage faults are drawn.  A COMMIT
\* that fails leaves the transaction open ("fail_open": no ROLLBACK is run,
\* the next BEGIN fails and its statements join the open transaction) or
\* rolled back by SQLite itself ("fail_rollback").  BEGIN and ROLLBACK are
\* run without a callback: an error of theirs is taken as unnoticed by the
\* handler.
ApplyChunk(r, faulty) ==
  /\ runs[r].pc = "fetched"
  /\ LET run == runs[r]
         pubkeys == ChunkKeys(run)
         base == IF txOpen THEN txBase ELSE tables
     IN  \E failed \in (IF faulty THEN SUBSET (1..Len(pubkeys)) ELSE {{}}),
            finalizeErr \in (IF faulty THEN BOOLEAN ELSE {FALSE}),
            commit \in (IF faulty THEN CommitOutcomes ELSE {"ok"}) :
           LET stamp == SyncStamp(r, ChunkNo(run.i))
               outcome == TxOutcome(finalizeErr, commit)
               undone == finalizeErr \/ commit = "fail_rollback"
               newValidators ==
                 IF run.target = "validators"
                 THEN UpdateRows(validators, run.target, pubkeys, run.fetch.statuses,
                                 failed, stamp)
                 ELSE validators
               newExit ==
                 IF run.target = "exit"
                 THEN UpdateRows(exit_validators, run.target, pubkeys,
                                 run.fetch.statuses, failed, stamp)
                 ELSE exit_validators
           IN  /\ finalizeErr => commit = "ok" /\ failed = {}
               /\ validators' = IF undone THEN base[1] ELSE newValidators
               /\ exit_batches' = IF undone THEN base[2] ELSE exit_batches
               /\ exit_validators' = IF undone THEN base[3] ELSE newExit
               /\ txOpen' = (~undone /\ commit = "fail_open")
               /\ txBase' = IF ~undone /\ commit = "fail_open" THEN base ELSE <<>>
               /\ runs' = [runs EXCEPT ![r] =
                            [AfterChunk(run, outcome) EXCEPT
                               !.fetch = Null,
                               !.last = [chunk |-> ChunkNo(run.i), outcome |-> outcome]]]
  /\ UNCHANGED <<nextBatchId, upload, exitUpload, deleting, nUploads, call, nDeletes, rejects,
                 applied, answers>>

\* the pacing delay is over: next iteration
DelayDone(r) ==
  /\ runs[r].pc = "delay"
  /\ runs' = [runs EXCEPT ![r].pc = "fetching", ![r].i = @ + BATCH_SIZE,
                          ![r].attempted = Append(@, ChunkNo(runs[r].i + BATCH_SIZE))]
  /\ UNCHANGED <<validators, exit_batches, exit_validators, nextBatchId, txOpen,
                 txBase, upload, exitUpload, deleting, nUploads, call, nDeletes, rejects,
                 applied, answers>>

(* ------------- getValidatorStatusesBatch called on its own ------------- *)
\* the sequences over S of length at most n
RECURSIVE SeqsUpTo(_, _)
SeqsUpTo(S, n) ==
  IF n = 0 THEN {<<>>}
  ELSE LET shorter == SeqsUpTo(S, n - 1)
       IN  shorter \cup { Append(q, x) : q \in shorter, x \in S }

\* a caller passes pubkeys; how the bulk request and the per-key requests
\* end, and what the oracle knows of each key, is the environment's choice
CallFetchBatch(raws, maxKeys) ==
  /\ call = Null
  /\ \E pubkeys \in SeqsUpTo(raws, maxKeys), bulk \in BulkOutcomes :
       \E view \in [{ normalizePubkey(pubkeys[j]) : j \in 1..Len(pubkeys) }
                      -> SyncLabels \cup {NotFound}],
          perKey \in [1..Len(pubkeys) -> PerKeyOutcomes] :
         call' = [pubkeys |-> pubkeys, bulk |-> bulk, view |-> view, perKey |-> perKey,
                  pc |-> "pending", ret |-> Null]
  /\ UNCHANGED <<validators, exit_batches, exit_validators, nextBatchId, txOpen,
                 txBase, runs, upload, exitUpload, deleting, nUploads, nDeletes, rejects,
                 applied, answers>>

\* the function returns or throws
ReturnFetchBatch ==
  /\ call # Null
  /\ call.pc = "pending"
  /\ call' = [call EXCEPT
                !.pc = "returned",
                !.ret = getValidatorStatusesBatch(call.pubkeys, call.bulk,
                                                  call.perKey, call.view)]
  /\ UNCHANGED <<validators, exit_batches, exit_validators, nextBatchId, txOpen,
                 txBase, runs, upload, exitUpload, deleting, nUploads, nDeletes, rejects,
                 applied, answers>>

(* ------ mapBeaconStatus and normalizePubkey applied on their own ------- *)
\* the status labels of the beacon API, a label it does not have, a label
\* in another case, the empty label and an absent one
BeaconLabels ==
  {"pending_initialized", "pending_queued", "active_ongoing", "active_exiting",
   "active_slashed", "exited_unslashed", "exited_slashed", "withdrawal_possible",
   "withdrawal_done"}
MapperInputs == BeaconLabels \cup {"validator_unknown", "ACTIVE_ONGOING", "", NULL}

\* key strings: whitespace, hex letters in both cases, a digit and the
\* characters of the prefix
KeyAlphabet == {" ", "a", "A", "0", "x", "X"}
KeyStrings == SeqsUpTo(KeyAlphabet, MaxKeyLen)

\* a caller is about to apply one of the two functions to an argument
InitApplied ==
  /\ InitDatabase
  /\ \/ \E label \in MapperInputs :
          applied = [fn |-> "mapBeaconStatus", arg |-> label, returned |-> <<>>]
     \/ \E k \in KeyStrings :
          applied = [fn |-> "normalizePubkey", arg |-> k, returned |-> <<>>]

ApplyMapBeaconStatus ==
  /\ applied # Null
  /\ applied.fn = "mapBeaconStatus"
  /\ applied.returned = <<>>
  /\ applied' = [applied EXCEPT !.returned = <<mapBeaconStatus(applied.arg)>>]
  /\ UNCHANGED <<validators, exit_batches, exit_validators, nextBatchId, txOpen,
                 txBase, runs, upload, exitUpload, deleting, nUploads, call, nDeletes,
                 rejects, answers>>

\* normalizePubkey is applied to the argument, then to what it returned
ApplyNormalizePubkey ==
  /\ applied # Null
  /\ applied.fn = "normalizePubkey"
  /\ Len(applied.returned) < MaxApplications
  /\ LET pubkey == IF applied.returned = <<>> THEN applied.arg
                   ELSE applied.returned[Len(applied.returned)]
     IN  applied' = [applied EXCEPT !.returned = Append(@, normalizePubkey(pubkey))]
  /\ UNCHANGED <<validators, exit_batches, exit_validators, nextBatchId, txOpen,
                 txBase, runs, upload, exitUpload, deleting, nUploads, call, nDeletes,
                 rejects, answers>>

(* ------------------------- GET /api/statistics ------------------------- *)
\* COUNT(*) over the rows a query selects
CountRows(rows) == Len(rows)

\* formatted[provider]: the three zeroed counters and total, and one key per
\* status the GROUP BY provider, status reports for the provider
FormattedKeys(provider) ==
  {"active", "exit_queue", "inactive", "total"}
    \cup { validators[k].status : k \in { n \in 1..Len(validators) :
                                           validators[n].provider = provider } }

Formatted(provider) ==
  [key \in FormattedKeys(provider) |->
     IF key = "total"
     THEN CountRows(SelectSeq(validators, LAMBDA v : v.provider = provider))
     ELSE CountRows(SelectSeq(validators,
                              LAMBDA v : v.provider = provider /\ v.status = key))]

byProvider == [provider \in KnownProviders |-> Formatted(provider)]

\* a bucketStats query without its provider filter
BucketRowAnyProvider(v) == v.bucket_no # NULL

\* the rows of the bucketStats query
BucketRow(v) == v.provider \in {"Lido", "Etherfi", "Mantle"} /\ v.bucket_no # NULL

BucketGroups ==
  { <<validators[k].provider, validators[k].bucket_no>> :
      k \in { n \in 1..Len(validators) : BucketRow(validators[n]) } }

BucketKeys(g) ==
  {"active", "exit_queue", "inactive", "total"}
    \cup { validators[k].status :
             k \in { n \in 1..Len(validators) :
                       /\ BucketRow(validators[n])
                       /\ <<validators[n].provider, validators[n].bucket_no>> = g } }

\* byBucket[provider][bucketNo], indexed by the pair
byBucket ==
  [g \in BucketGroups |->
     [key \in BucketKeys(g) |->
        IF key = "total"
        THEN CountRows(SelectSeq(validators,
               LAMBDA v : BucketRow(v) /\ <<v.provider, v.bucket_no>> = g))
        ELSE CountRows(SelectSeq(validators,
               LAMBDA v : /\ BucketRow(v)
                          /\ <<v.provider, v.bucket_no>> = g
                          /\ v.status = key))]]

\* the totals of the response
totals ==
  [total |-> CountRows(validators),
   active |-> CountRows(SelectSeq(validators, LAMBDA v : v.status = "active")),
   exit_queue |-> CountRows(SelectSeq(validators, LAMBDA v : v.status = "exit_queue")),
   inactive |-> CountRows(SelectSeq(validators, LAMBDA v : v.status = "inactive"))]

(* ----------------------- GET /api/exit-statistics ---------------------- *)
\* the four aggregates every query of the handler selects over the
\* exit_validators rows of a group: pending is counted as inactive
ExitCounts(rows) ==
  [total |-> CountRows(rows),
   active |-> CountRows(SelectSeq(rows, LAMBDA e : e.status = "active")),
   exit_queue |-> CountRows(SelectSeq(rows, LAMBDA e : e.status = "exit_queue")),
   inactive |-> CountRows(SelectSeq(rows,
                            LAMBDA e : e.status \in {"inactive", "pending"}))]

exitTotals == ExitCounts(exit_validators)

\* one row per batch (LEFT JOIN exit_validators, GROUP BY b.id)
exitByBatch ==
  [b \in { exit_batches[n].id : n \in 1..Len(exit_batches) } |->
     ExitCounts(SelectSeq(exit_validators, LAMBDA e : e.batch_id = b))]

\* LEFT JOIN validators v ON e.pubkey = v.pubkey: v.provider and v.bucket_no
\* of the exit row, NULL without a match
JoinedValidator(e) ==
  IF \E k \in 1..Len(validators) : validators[k].pubkey = e.pubkey
  THEN validators[CHOOSE k \in 1..Len(validators) : validators[k].pubkey = e.pubkey]
  ELSE [provider |-> NULL, bucket_no |-> NULL]

\* GROUP BY v.provider within a batch: the groups, the NULL group first
ExitProviderGroups(b) ==
  { JoinedValidator(exit_validators[k]).provider :
      k \in { n \in 1..Len(exit_validators) : exit_validators[n].batch_id = b } }

\* providers[COALESCE(v.provider, 'Unknown')] = row: the group of a provider
\* named Unknown is stored after, and over, the group of the unmatched rows
exitByProvider(b) ==
  LET names == { IF g = NULL THEN "Unknown" ELSE g : g \in ExitProviderGroups(b) }
      GroupOf(name) == IF name = "Unknown" /\ "Unknown" \notin ExitProviderGroups(b)
                       THEN NULL ELSE name
  IN  [name \in names |->
         ExitCounts(SelectSeq(exit_validators,
                    LAMBDA e : /\ e.batch_id = b
                               /\ JoinedValidator(e).provider = GroupOf(name)))]

\* WHERE v.provider IS NOT NULL AND v.bucket_no IS NOT NULL
\* GROUP BY v.provider, v.bucket_no
ExitBucketRow(e, b) ==
  /\ e.batch_id = b
  /\ JoinedValidator(e).provider # NULL
  /\ JoinedValidator(e).bucket_no # NULL

exitByBucket(b) ==
  LET groups == { <<JoinedValidator(exit_validators[k]).provider,
                    JoinedValidator(exit_validators[k]).bucket_no>> :
                    k \in { n \in 1..Len(exit_validators) :
                              ExitBucketRow(exit_validators[n], b) } }
  IN  [g \in groups |->
         ExitCounts(SelectSeq(exit_validators,
                    LAMBDA e : /\ ExitBucketRow(e, b)
                               /\ <<JoinedValidator(e).provider,
                                    JoinedValidator(e).bucket_no>> = g))]

(* --------------------------- specifications ---------------------------- *)
\* SpecV: the validator set under storage and oracle faults; one provider,
\* HTTP uploads
NextV ==
  \/ UploadCsvStart({"http"}, MaxCsvRows)
  \/ UploadCsvStep(RawKeys, {"LIDO"}, {""})
  \/ UploadCsvEnd
  \/ StartSync("validators", MaxRuns)
  \/ \E r \in 1..Len(runs) : FetchReturn(r, BulkOutcomes)
  \/ \E r \in 1..Len(runs) : ApplyChunk(r, TRUE)
  \/ \E r \in 1..Len(runs) : DelayDone(r)

SpecV == Init /\ [][NextV]_vars

\* SpecOverlap: both target sets, several sync requests, no faults
NextOverlap ==
  \/ UploadCsvStart({"http"}, MaxCsvRows)
  \/ UploadCsvStep(RawKeys, {"LIDO"}, {""})
  \/ UploadCsvEnd
  \/ StartSync("validators", MaxOverlap)
  \/ \E r \in 1..Len(runs) : FetchReturn(r, {"ok"})
  \/ \E r \in 1..Len(runs) : ApplyChunk(r, FALSE)
  \/ \E r \in 1..Len(runs) : DelayDone(r)

SpecOverlap == Init /\ [][NextOverlap]_vars

\* SpecStats: the validator set with known and unknown providers, with and
\* without buckets, loaded by the loader script; the oracle failing or not,
\* no storage fault
NextStats ==
  \/ UploadCsvStart({"script"}, MaxCsvRows)
  \/ UploadCsvStep(RawKeys, {"", "Kiln"}, {"", "1"})
  \/ UploadCsvEnd
  \/ StartSync("validators", MaxRuns)
  \/ \E r \in 1..Len(runs) : FetchReturn(r, {"ok", "timeout"})
  \/ \E r \in 1..Len(runs) : ApplyChunk(r, FALSE)
  \/ \E r \in 1..Len(runs) : DelayDone(r)

SpecStats == Init /\ [][NextStats]_vars

\* SpecE: exit tracking: exit CSV ingestion, batch deletion and sync of
\* exit_validators, beside a validators table filled by the loader
ExitKeys == { <<"0", "x", "a">>, <<" ", "B">> }

NextE ==
  \/ UploadCsvStart({"script"}, MaxJoinRows)
  \/ UploadCsvStep({<<"0", "x", "a">>}, {"", "Unknown"}, {"", "1"})
  \/ UploadCsvEnd
  \/ UploadExitCsvStart(MaxExitRows)
  \/ UploadExitCsvStep(ExitKeys)
  \/ UploadExitCsvEnd
  \/ DeleteExitValidators
  \/ DeleteExitBatch
  \/ StartSync("exit", MaxRuns)
  \/ \E r \in 1..Len(runs) : FetchReturn(r, {"ok"})
  \/ \E r \in 1..Len(runs) : ApplyChunk(r, FALSE)
  \/ \E r \in 1..Len(runs) : DelayDone(r)

SpecE == Init /\ [][NextE]_vars

\* SpecOracle: the oracle client on its own
NextOracle ==
  \/ CallFetchBatch(RawKeys, MaxCallKeys)
  \/ ReturnFetchBatch

SpecOracle == Init /\ [][NextOracle]_vars

\* SpecIngest: ingestion of validator CSVs by the HTTP route and by the
\* loader, with provider and bucket cells
NextIngest ==
  \/ UploadCsvStart({"http", "script"}, MaxCsvRows)
  \/ UploadCsvStep(RawKeys, {"", "Kiln"}, {"", "1"})
  \/ UploadCsvEnd

SpecIngest == Init /\ [][NextIngest]_vars

\* SpecRace: HTTP ingestion with bucket cells beside a sync of validators
NextRace ==
  \/ UploadCsvStart({"http"}, MaxCsvRows)
  \/ UploadCsvStep(RawKeys, {"LIDO"}, {"", "1"})
  \/ UploadCsvEnd
  \/ StartSync("validators", MaxRuns)
  \/ \E r \in 1..Len(runs) : FetchReturn(r, {"ok"})
  \/ \E r \in 1..Len(runs) : ApplyChunk(r, FALSE)
  \/ \E r \in 1..Len(runs) : DelayDone(r)

SpecRace == Init /\ [][NextRace]_vars

\* SpecReject: the two ingestion routes with requests they reject
NextReject ==
  \/ UploadCsvReject
  \/ UploadCsvStart({"http"}, MaxJoinRows)
  \/ UploadCsvStep(RawKeys, {"LIDO"}, {""})
  \/ UploadCsvEnd
  \/ UploadExitCsvReject
  \/ UploadExitCsvStart(MaxExitRows)
  \/ UploadExitCsvStep(ExitKeys)
  \/ UploadExitCsvEnd

SpecReject == Init /\ [][NextReject]_vars

\* SpecScenario: three records with two providers and two buckets are
\* ingested, by the HTTP route or by the loader, and synced
NextScenario ==
  \/ UploadCsvStart({"http", "script"}, MaxCsvRows)
  \/ UploadCsvStep(RawKeys, {"LIDO", "etherfi"}, {"1", "2"})
  \/ UploadCsvEnd
  \/ StartSync("validators", MaxRuns)
  \/ \E r \in 1..Len(runs) : FetchReturn(r, {"ok"})
  \/ \E r \in 1..Len(runs) : ApplyChunk(r, FALSE)
  \/ \E r \in 1..Len(runs) : DelayDone(r)

SpecScenario == Init /\ [][NextScenario]_vars

\* SpecTx: HTTP ingestion beside two sync runs of the validator set under
\* storage faults, the oracle answering.  The files spell two keys, no more
\* than BATCH_SIZE: every run has one chunk and never reaches the pacing
\* delay.
TxKeys == { <<"0", "x", "a">>, <<" ", "B">> }

NextTx ==
  \/ UploadCsvStart({"http"}, MaxTxRows)
  \/ UploadCsvStep(TxKeys, {"LIDO"}, {""})
  \/ UploadCsvEnd
  \/ StartSync("validators", MaxOverlap)
  \/ \E r \in 1..Len(runs) : FetchReturn(r, {"ok"})
  \/ \E r \in 1..Len(runs) : ApplyChunk(r, TRUE)

SpecTx == Init /\ [][NextTx]_vars

\* SpecExitTx: exit CSV ingestion beside a sync of exit_validators under
\* storage faults, the oracle answering
NextExitTx ==
  \/ UploadExitCsvStart(MaxExitRows)
  \/ UploadExitCsvStep(ExitKeys)
  \/ UploadExitCsvEnd
  \/ StartSync("exit", MaxRuns)
  \/ \E r \in 1..Len(runs) : FetchReturn(r, {"ok"})
  \/ \E r \in 1..Len(runs) : ApplyChunk(r, TRUE)
  \/ \E r \in 1..Len(runs) : DelayDone(r)

SpecExitTx == Init /\ [][NextExitTx]_vars

\* SpecKeys: ingestion of files whose pubkey cells spell keys with and
\* without whitespace, prefix and upper case
CaseKeys == { <<"0", "x", "a">>, <<"0", "X", "a">>, <<" ", "A">>, <<"a", " ">>,
              <<"0", "x", "B">> }

NextKeys ==
  \/ UploadCsvStart({"http", "script"}, MaxCsvRows)
  \/ UploadCsvStep(CaseKeys, {""}, {""})
  \/ UploadCsvEnd

SpecKeys == Init /\ [][NextKeys]_vars

\* SpecApplied: mapBeaconStatus and normalizePubkey as pure functions
NextApplied ==
  \/ ApplyMapBeaconStatus
  \/ ApplyNormalizePubkey

SpecApplied == InitApplied /\ [][NextApplied]_vars

(* ------------------------------- claims -------------------------------- *)
\* a run is active from its enumeration to the end of its last chunk
Active(r) == runs[r].pc \in {"fetching", "fetched", "delay"}

\* C1: for each target set at most one sync run is active at any time: no
\* two runs on the same target are both between their enumeration and
\* their last chunk.
C1_SingleFlight ==
  \A r1, r2 \in 1..Len(runs) :
    (r1 # r2 /\ runs[r1].target = runs[r2].target) => ~(Active(r1) /\ Active(r2))

\* the table a run works on, the keys of its current chunk and the stamp of
\* the chunk's statements
TargetRows(run) == IF run.target = "validators" THEN validators ELSE exit_validators
ChunkStamp(r) == SyncStamp(r, ChunkNo(runs[r].i))

\* the step in which run r's chunk transaction is handled
Handles(r) == runs[r].pc = "fetched" /\ runs'[r].pc # "fetched"

\* C2: chunk atomicity: after a chunk has been handled either every record
\* of the chunk carries the new status and the new updated_at or none does,
\* also when the update of one record fails in mid-chunk.
C2_ChunkAtomicity ==
  [][\A r \in 1..Len(runs) :
       Handles(r) =>
         LET rows == TargetRows(runs[r])'
             inChunk == { k \in 1..Len(rows) : rows[k].pubkey \in Range(ChunkKeys(runs[r])) }
             Carries(k) ==
               /\ rows[k].updated_at = ChunkStamp(r)
               /\ rows[k].status = StatusFor(runs[r].target, runs[r].fetch.statuses,
                                             rows[k].pubkey)
         IN  \/ \A k \in inChunk : Carries(k)
             \/ \A k \in inChunk : rows[k].updated_at # ChunkStamp(r)]_vars

SumOfCounts(f) ==
  f["active"] + f["exit_queue"] + f["inactive"]
    + (IF "pending" \in DOMAIN f THEN f["pending"] ELSE 0)

C4_ValidatorConservation ==
  /\ \A provider \in KnownProviders :
       SumOfCounts(byProvider[provider]) = byProvider[provider]["total"]
  /\ \A g \in DOMAIN byBucket : SumOfCounts(byBucket[g]) = byBucket[g]["total"]

\* a bucket group that holds a pending record and synced records of two
\* statuses
C4_Witness ==
  \E g \in DOMAIN byBucket :
    /\ "pending" \in DOMAIN byBucket[g]
    /\ byBucket[g]["inactive"] = 1
    /\ byBucket[g]["active"] = 1
    /\ byBucket[g]["total"] = 3
    /\ byProvider[g[1]]["total"] = 3

\* C6: the status counts of the overall totals of the validator set sum to
\* totals.total, also while records are pending.
C6_TotalsConservation ==
  totals.active + totals.exit_queue + totals.inactive = totals.total

\* C7: when a chunk's transaction commits, every record of the chunk whose
\* key is absent from the oracle's result has status unknown and every
\* record whose key is present has the mapper's image of its label.
C7_AbsentIsUnknown ==
  [][\A r \in 1..Len(runs) :
       (Handles(r) /\ runs'[r].last.outcome = "committed") =>
         LET rows == TargetRows(runs[r])'
             statuses == runs[r].fetch.statuses
         IN  \A k \in 1..Len(rows) :
               rows[k].pubkey \in Range(ChunkKeys(runs[r])) =>
                 rows[k].status =
                   IF \E n \in 1..Len(statuses) : statuses[n].pubkey = rows[k].pubkey
                   THEN mapBeaconStatus(
                          statuses[CHOOSE n \in 1..Len(statuses) :
                                     statuses[n].pubkey = rows[k].pubkey].status)
                   ELSE "unknown"]_vars

\* C8: when the bulk request of a chunk fails and the per-key request for a
\* key fails with a transient error, the run leaves the status of the
\* key's record as it was.
C8_TransientKeepsStatus ==
  [][\A r \in 1..Len(runs) :
       (Handles(r) /\ runs[r].fetch.fellBack) =>
         \A j \in runs[r].fetch.errors :
           \A k \in 1..Len(TargetRows(runs[r])) :
             TargetRows(runs[r])[k].pubkey = ChunkKeys(runs[r])[j] =>
               /\ k <= Len(TargetRows(runs[r])')
               /\ TargetRows(runs[r])'[k].pubkey = TargetRows(runs[r])[k].pubkey
               /\ TargetRows(runs[r])'[k].status = TargetRows(runs[r])[k].status]_vars

\* C5: aggregation conservation for exit tracking: the overall totals, every
\* batch row and every per-batch provider and (provider, bucket) group
\* satisfy active + exit_queue + inactive = total, whatever the statuses.
Conserved(c) == c.active + c.exit_queue + c.inactive = c.total

C5_ExitConservation ==
  /\ Conserved(exitTotals)
  /\ \A b \in DOMAIN exitByBatch :
       /\ Conserved(exitByBatch[b])
       /\ \A name \in DOMAIN exitByProvider(b) : Conserved(exitByProvider(b)[name])
       /\ \A g \in DOMAIN exitByBucket(b) : Conserved(exitByBucket(b)[g])

\* C9: on any failure of the bulk path (timeout, oracle-side rejection,
\* malformed response, a successful response without a data list)
\* getValidatorStatusesBatch falls back to the per-key requests.
Returned == call # Null /\ call.pc = "returned"

C9_FallsBackOnAnyBulkFailure ==
  (Returned /\ call.bulk # "ok") => call.ret.fellBack

\* C10: getValidatorStatusesBatch never fails as a whole: whatever per-key
\* requests of the fallback fail or report not-found, no exception leaves
\* it and the list it returns holds exactly the tuples of the keys whose
\* request succeeded with a found validator.
Found(j) ==
  /\ call.perKey[j] = "ok"
  /\ call.view[normalizePubkey(call.pubkeys[j])] # NotFound

FoundTuple(j) ==
  [status |-> call.view[normalizePubkey(call.pubkeys[j])],
   pubkey |-> normalizePubkey(call.pubkeys[j])]

C10_PartialResult ==
  (Returned /\ call.ret.fellBack) =>
    /\ ~call.ret.thrown
    /\ LET found == { j \in 1..Len(call.pubkeys) : Found(j) }
           result == call.ret.result
       IN  /\ Len(result) = Cardinality(found)
           /\ \E f \in [1..Len(result) -> found] :
                /\ \A m, n \in 1..Len(result) : m < n => f[m] < f[n]
                /\ \A n \in 1..Len(result) : result[n] = FoundTuple(f[n])

C10_Witness ==
  /\ Returned
  /\ call.ret.fellBack
  /\ \E j \in 1..Len(call.pubkeys) : call.perKey[j] = "error"
  /\ \E j \in 1..Len(call.pubkeys) : Found(j)
  /\ Len(call.ret.result) = 1

\* the rows of run r's table that carry a stamp of the run
StampedBy(r) ==
  { k \in 1..Len(TargetRows(runs[r])) :
      /\ TargetRows(runs[r])[k].updated_at[1] = "sync"
      /\ TargetRows(runs[r])[k].updated_at[2] = r }

\* place of a step in the first stretch of run r, 0 when it is not there
PlaceOf(r, step) ==
  IF \E n \in 1..Len(runs[r].order) : runs[r].order[n] = step
  THEN CHOOSE n \in 1..Len(runs[r].order) : runs[r].order[n] = step
  ELSE 0

RecordOf(r, row) ==
  IF runs[r].target = "validators" THEN row.pubkey ELSE <<row.batch_id, row.pubkey>>

\* C12: a run works on the snapshot taken at its start: a record created
\* after the enumeration (a validator ingested, an exit record added by a
\* new batch) never has its status or updated_at written by the run.
C12_SnapshotOnly ==
  \A r \in 1..Len(runs) :
    \A k \in StampedBy(r) : RecordOf(r, TargetRows(runs[r])[k]) \in runs[r].known

\* the rows of validators with a pubkey
RowsOf(rows, pubkey) == { k \in 1..Len(rows) : rows[k].pubkey = pubkey }

\* the step upserts a record of the file
Upserts == upload # Null /\ upload' # Null /\ upload'.remaining = upload.remaining - 1

\* C13: upsert semantics on every ingestion path: when a pubkey that is
\* stored is ingested again with another provider and another bucket,
\* exactly one record of the pubkey is left, with the provider, bucket_no
\* and json_filename of the second ingestion and status pending.
C13_Upsert ==
  [][Upserts =>
       LET second == upload'.last
           before == RowsOf(validators, second.pubkey)
           after == RowsOf(validators', second.pubkey)
       IN  (\E k \in before : /\ validators[k].provider # second.provider
                              /\ validators[k].bucket_no # second.bucket_no) =>
             /\ Cardinality(after) = 1
             /\ \A k \in after :
                  /\ validators'[k].provider = second.provider
                  /\ validators'[k].bucket_no = second.bucket_no
                  /\ validators'[k].json_filename = second.json_filename
                  /\ validators'[k].status = "pending"]_vars

\* C14: ingestion upserts and the chunk updates of a running sync only race
\* as last write wins: pubkey stays unique; an upsert leaves the record
\* pending with the provider, bucket_no and json_filename of the file; a
\* chunk update changes nothing of a record but status and updated_at, and
\* the status it writes is the one of the sync.
UniquePubkeys(rows) ==
  \A k1, k2 \in 1..Len(rows) : rows[k1].pubkey = rows[k2].pubkey => k1 = k2

C14_LastWriteWins ==
  [][/\ UniquePubkeys(validators')
     /\ Upserts =>
          \A k \in RowsOf(validators', upload'.last.pubkey) :
            /\ validators'[k].status = "pending"
            /\ validators'[k].provider = upload'.last.provider
            /\ validators'[k].bucket_no = upload'.last.bucket_no
            /\ validators'[k].json_filename = upload'.last.json_filename
     /\ \A r \in 1..Len(runs) :
          Handles(r) =>
            /\ Len(validators') = Len(validators)
            /\ \A k \in 1..Len(validators) :
                 /\ validators'[k].pubkey = validators[k].pubkey
                 /\ validators'[k].provider = validators[k].provider
                 /\ validators'[k].bucket_no = validators[k].bucket_no
                 /\ validators'[k].json_filename = validators[k].json_filename
                 /\ \/ validators'[k] = validators[k]
                    \/ validators'[k].status =
                         StatusFor("validators", runs[r].fetch.statuses,
                                   validators[k].pubkey)]_vars

BatchIds(batches) == { batches[n].id : n \in 1..Len(batches) }
OtherRows(rows, b) == SelectSeq(rows, LAMBDA e : e.batch_id # b)
ChildRows(rows, b) == SelectSeq(rows, LAMBDA e : e.batch_id = b)

\* C15: the DELETE handler removes the exit_validators rows of the batch
\* first and the batch second; when it has succeeded neither the batch nor
\* a row with its batch_id exists; the rows of the other batches are as
\* they were.
C15_DeleteBatch ==
  [][/\ (deleting = Null /\ deleting' # Null) =>
          /\ exit_batches' = exit_batches
          /\ ChildRows(exit_validators', deleting'.batchId) = <<>>
          /\ OtherRows(exit_validators', deleting'.batchId)
               = OtherRows(exit_validators, deleting'.batchId)
     /\ (deleting # Null /\ deleting' = Null) =>
          /\ exit_validators' = exit_validators
          /\ deleting.batchId \notin BatchIds(exit_batches') =>
               ChildRows(exit_validators', deleting.batchId) = <<>>]_vars

\* C16: in every reachable state, between the two statements of a DELETE,
\* after a failure of the second and while an exit CSV is being ingested,
\* the batch_id of every exit_validators row is the id of an exit_batches
\* row.
C16_NoOrphans ==
  \A k \in 1..Len(exit_validators) :
    exit_validators[k].batch_id \in BatchIds(exit_batches)

\* C17: an ingestion request whose file is missing, malformed or without a
\* valid record is answered with an error before any persistence: the step
\* that rejects it creates and changes no row of any table.
C17_RejectWritesNothing ==
  [][rejects' # rejects =>
       /\ validators' = validators
       /\ exit_batches' = exit_batches
       /\ exit_validators' = exit_validators
       /\ nextBatchId' = nextBatchId]_vars

\* both routes have rejected a request while rows of both are stored
C17_Witness ==
  /\ rejects["upload-csv"] = 1
  /\ rejects["upload-exit-csv"] = 1
  /\ validators # <<>>
  /\ exit_validators # <<>>

\* the three records of the scenario, as parseCSV hands them over
ScenarioA == [pubkey |-> <<"0", "x", "a">>, provider |-> "Lido",
              json_filename |-> NULL, bucket_no |-> "1"]
ScenarioB == [pubkey |-> <<"0", "x", "b">>, provider |-> "Etherfi",
              json_filename |-> NULL, bucket_no |-> "1"]
ScenarioC == [pubkey |-> <<"0", "x", "c">>, provider |-> "Lido",
              json_filename |-> NULL, bucket_no |-> "2"]

StatusOf(pubkey) ==
  validators[CHOOSE k \in 1..Len(validators) : validators[k].pubkey = pubkey].status

\* the three records were ingested and one sync of them is complete, in
\* which the oracle reported A as active_ongoing and B as exited_unslashed
\* and had no entry for C
ScenarioDone ==
  /\ upload # Null
  /\ Len(upload.file) = 3
  /\ Range(upload.file) = {ScenarioA, ScenarioB, ScenarioC}
  /\ Len(runs) = 1
  /\ runs[1].pc = "done"
  /\ runs[1].total = 3
  /\ Len(validators) = 3
  /\ StampedBy(1) = 1..3
  /\ StatusOf(ScenarioA.pubkey) = mapBeaconStatus("active_ongoing")
  /\ StatusOf(ScenarioB.pubkey) = mapBeaconStatus("exited_unslashed")
  /\ StatusOf(ScenarioC.pubkey) \notin {"active", "exit_queue", "pending"}

\* C18: after the scenario the statistics are by provider
\* Lido {active 1, exit_queue 0, inactive 1, total 2} and
\* Etherfi {active 0, exit_queue 1, inactive 0, total 1}, and by bucket
\* Lido/1 {active 1, total 1} and Lido/2 {inactive 1, total 1}.
C18_Scenario ==
  ScenarioDone =>
    /\ byProvider["Lido"]["active"] = 1
    /\ byProvider["Lido"]["exit_queue"] = 0
    /\ byProvider["Lido"]["inactive"] = 1
    /\ byProvider["Lido"]["total"] = 2
    /\ byProvider["Etherfi"]["active"] = 0
    /\ byProvider["Etherfi"]["exit_queue"] = 1
    /\ byProvider["Etherfi"]["inactive"] = 0
    /\ byProvider["Etherfi"]["total"] = 1
    /\ <<"Lido", "1">> \in DOMAIN byBucket
    /\ <<"Lido", "2">> \in DOMAIN byBucket
    /\ byBucket[<<"Lido", "1">>]["active"] = 1
    /\ byBucket[<<"Lido", "1">>]["total"] = 1
    /\ byBucket[<<"Lido", "2">>]["inactive"] = 1
    /\ byBucket[<<"Lido", "2">>]["total"] = 1

\* the provider an exit row is reported under
ProviderName(e) ==
  IF JoinedValidator(e).provider = NULL THEN "Unknown" ELSE JoinedValidator(e).provider

RECURSIVE SumTotals(_, _)
SumTotals(f, names) ==
  IF names = {} THEN 0
  ELSE LET name == CHOOSE n \in names : TRUE
       IN  f[name].total + SumTotals(f, names \ {name})

\* C19: in the exit statistics every exit_validators row of a batch is
\* counted in exactly one entry of the batch's by-provider breakdown, the
\* provider of the validators row with its pubkey or else Unknown; the
\* provider totals of a batch sum to the batch's total.
C19_ProviderPartition ==
  \A b \in DOMAIN exitByBatch :
    LET rows == { k \in 1..Len(exit_validators) : exit_validators[k].batch_id = b }
        providers == exitByProvider(b)
    IN  /\ \A k \in rows : ProviderName(exit_validators[k]) \in DOMAIN providers
        /\ \A name \in DOMAIN providers :
             providers[name].total =
               Cardinality({ k \in rows : ProviderName(exit_validators[k]) = name })
        /\ SumTotals(providers, DOMAIN providers) = exitByBatch[b].total

RECURSIVE SumProviderTotals(_)
SumProviderTotals(providers) ==
  IF providers = {} THEN 0
  ELSE LET p == CHOOSE q \in providers : TRUE
       IN  byProvider[p]["total"] + SumProviderTotals(providers \ {p})

KnownRows == { k \in 1..Len(validators) : validators[k].provider \in KnownProviders }

\* C20: a validators row whose provider is not Lido, Etherfi or Mantle is
\* in no by-provider entry and no by-bucket entry of the statistics and is
\* counted in the overall total: totals.total is the number of all rows and
\* the by-provider totals sum to the number of rows of the known providers.
C20_UnknownProviderExcluded ==
  /\ DOMAIN byProvider = KnownProviders
  /\ \A p \in KnownProviders :
       byProvider[p]["total"] =
         Cardinality({ k \in 1..Len(validators) : validators[k].provider = p })
  /\ \A g \in DOMAIN byBucket : g[1] \in KnownProviders
  /\ totals.total = Cardinality(DOMAIN validators)
  /\ SumProviderTotals(KnownProviders) = Cardinality(KnownRows)

\* a row of another provider, with a bucket, beside a row of a known one
C20_Witness ==
  /\ Len(validators) = 2
  /\ Cardinality(KnownRows) = 1
  /\ \E k \in 1..Len(validators) :
       validators[k].provider = "Kiln" /\ validators[k].bucket_no = "1"
  /\ totals.total = 2
  /\ SumProviderTotals(KnownProviders) = 1

\* C21: mapBeaconStatus is total and follows the table: active for
\* active_ongoing, active_exiting and active_slashed, exit_queue for
\* pending_queued, exited_unslashed and exited_slashed, inactive for every
\* other input, unrecognized and absent labels included; what it returns is
\* one of active, exit_queue, inactive.
Mapped == applied # Null /\ applied.fn = "mapBeaconStatus" /\ applied.returned # <<>>

C21_MapperTotal ==
  Mapped =>
    LET label == applied.arg
        out == applied.returned[1]
    IN  /\ Len(applied.returned) = 1
        /\ out \in {"active", "exit_queue", "inactive"}
        /\ (label = "active_ongoing" \/ label = "active_exiting"
              \/ label = "active_slashed") <=> out = "active"
        /\ (label = "pending_queued" \/ label = "exited_unslashed"
              \/ label = "exited_slashed") <=> out = "exit_queue"

\* a label the beacon API does not have was mapped
C21_Witness ==
  /\ Mapped
  /\ applied.arg = "validator_unknown"
  /\ applied.returned = <<"inactive">>

\* C22: normalizePubkey is idempotent over the key strings: applied to its
\* own result it returns that result; the empty string is returned as it is.
Normalized(n) ==
  applied # Null /\ applied.fn = "normalizePubkey" /\ Len(applied.returned) >= n

C22_NormalizeIdempotent ==
  /\ Normalized(2) => applied.returned[2] = applied.returned[1]
  /\ (Normalized(1) /\ applied.arg = <<>>) => applied.returned[1] = <<>>

\* a key with an upper-case prefix and surrounding whitespace was normalized
\* twice
C22_Witness ==
  /\ Normalized(2)
  /\ applied.arg = <<" ", "0", "X">>
  /\ Len(applied.returned[1]) = 4

\* the key a key string denotes: its hex digits, without surrounding
\* whitespace, without the prefix in either case, in lower case
Denoted(k) ==
  LET t == trim(k)
      l == [i \in 1..Len(t) |-> toLowerCase(t[i])]
  IN  IF startsWith0x(l) THEN SubSeq(l, 3, Len(l)) ELSE l

\* C23: normalization is canonical: key strings that denote the same key and
\* differ in surrounding whitespace, in the case of the hex digits or of
\* the prefix, or in having the prefix, normalize to the same string, and
\* ingesting them leaves one validators row per key.
C23_NormalizeCanonical ==
  upload # Null =>
    /\ \A m, n \in 1..Len(upload.raws) :
         Denoted(upload.raws[m]) = Denoted(upload.raws[n]) =>
           normalizePubkey(upload.raws[m]) = normalizePubkey(upload.raws[n])
    /\ Len(validators) =
         Cardinality({ Denoted(upload.raws[n]) : n \in 1..Len(upload.raws) })

\* the number of the last chunk of a run whose transaction is over
HandledChunks(run) == IF run.last = Null THEN 0 ELSE run.last.chunk

\* C24: within a run the chunks are processed one after the other in
\* snapshot order: the oracle request of chunk n+1 is issued only when the
\* transaction of chunk n has committed or failed, so a run never has two
\* oracle requests or two chunk transactions in flight.
C24_SequentialChunks ==
  \A r \in 1..Len(runs) :
    LET run == runs[r]
        issued == Len(run.attempted)
    IN  /\ run.attempted = [n \in 1..issued |-> n]
        /\ issued - HandledChunks(run) \in {0, 1}
        /\ run.pc \in {"fetching", "fetched"} =>
             /\ issued = HandledChunks(run) + 1
             /\ ChunkNo(run.i) = issued
        /\ run.pc \in {"delay", "done"} => issued = HandledChunks(run)
        /\ run.last # Null =>
             run.last.outcome \in {"committed", "rolled_back", "commit_failed"}

\* the first chunk has committed, the delay is over and the statuses of the
\* second chunk are in hand
C24_Witness ==
  \E r \in 1..Len(runs) :
    /\ runs[r].last # Null
    /\ runs[r].last.chunk = 1
    /\ runs[r].last.outcome = "committed"
    /\ runs[r].pc = "fetched"
    /\ runs[r].attempted = <<1, 2>>

\* the rows of run r's table, after the step, that carry the stamp of chunk c
StampedAfter(r, c) ==
  { k \in 1..Len(TargetRows(runs[r])') :
      TargetRows(runs[r])'[k].updated_at = SyncStamp(r, c) }

\* C25: when the COMMIT of a chunk's transaction fails, none of the chunk's
\* status writes is persistent: they are rolled back, no transaction is left
\* open when the run goes on to the next chunk, and the commit of the next
\* chunk does not make them durable.
C25_CommitFailureRollsBack ==
  [][\A r \in 1..Len(runs) :
       /\ (Handles(r) /\ runs'[r].last.outcome = "commit_failed") =>
            /\ ~txOpen'
            /\ StampedAfter(r, ChunkNo(runs[r].i)) = {}
       /\ (/\ Handles(r)
           /\ runs[r].last # Null
           /\ runs[r].last.outcome = "commit_failed"
           /\ runs'[r].last.outcome = "committed") =>
            StampedAfter(r, runs[r].last.chunk) = {}]_vars

\* the rows after a step are the rows before it but for status and updated_at
SameButStatus(before, after) ==
  /\ Len(after) = Len(before)
  /\ \A k \in 1..Len(before) :
       [after[k] EXCEPT !.status = before[k].status,
                        !.updated_at = before[k].updated_at] = before[k]

IssuesNext(r) == Len(runs'[r].attempted) > Len(runs[r].attempted)

\* C27: pacing: after the processing of every chunk but the last, whether
\* it succeeded or failed, the run is in the pacing delay, and the oracle
\* request of the next chunk is issued only out of that delay; after the
\* last chunk there is no delay.
C27_Pacing ==
  [][\A r \in 1..Len(runs) :
       /\ Handles(r) =>
            IF ChunkNo(runs[r].i) < NumChunks(runs[r])
            THEN runs'[r].pc = "delay"
            ELSE runs'[r].pc = "done"
       /\ IssuesNext(r) => runs[r].pc = "delay"]_vars

\* the step ends the handler of a POST /api/upload-csv request
EndsUpload == upload # Null /\ upload.kind = "http" /\ upload' = Null

\* C28: a POST /api/upload-csv request with at least one valid record gets
\* exactly one response, sent when its handler ends, and the response is the
\* success acknowledgment when all records of the file were persisted.
C28_UploadAnswered ==
  [][EndsUpload =>
       /\ Len(answers') = Len(answers) + 1
       /\ Len(upload.file) = upload.total => answers'[Len(answers')] = "success"]_vars

\* the step ends the handler of a POST /api/upload-exit-csv request
EndsExitUpload == exitUpload # Null /\ exitUpload' = Null

\* C29: when the ingestion of an exit CSV has completed, total_validators of
\* the batch it created is the number of exit_validators rows of the batch,
\* also for a file in which a pubkey occurs more than once.
C29_TotalMatchesRows ==
  [][EndsExitUpload =>
       \A n \in 1..Len(exit_batches') :
         exit_batches'[n].id = exitUpload.batchId =>
           exit_batches'[n].total_validators =
             Len(ChildRows(exit_validators', exitUpload.batchId))]_vars

====
